---- MODULE Spec2Model ----
(***************************************************************************)
(* Model of the serial connection manager (class SerialHandler) and of the *)
(* transport selector (sendToMeshtastic) of src/src/services/apiService.ts *)
(*                                                                         *)
(* JavaScript runs one task at a time; an async method runs without        *)
(* interruption up to its next await.  Every action below is one such      *)
(* uninterrupted run: the start of a call up to its first await, or the    *)
(* resumption of a call after an awaited platform promise has settled.  A  *)
(* promise the platform rejects at the call itself (open() on a port that  *)
(* is not closed, close() on a port that is not open or whose stream is    *)
(* locked) resumes the caller in the microtask that follows, before any    *)
(* other task runs, so the call and its catch block are one action.        *)
(* The platform (Web Serial ports, their writable stream and its lock) is  *)
(* modelled by portState, plugged and holders.                             *)
(***************************************************************************)
EXTENDS Naturals, Integers, Sequences, FiniteSets, Bags, TLC

\* ---------------------------------------------------------------- bounds
MaxCalls == 2          \* async calls that may be suspended at the same time
MaxListeners == 2      \* callbacks that may subscribe
MaxTail == 3           \* UTF-16 units of a text after its run of letters
PrefixSlack == 10      \* how far below MAX_BYTES the runs of letters start
EdgeSlack == 1         \* how far around the widest frame the long texts reach

Listeners == 1..MaxListeners   \* callbacks, numbered as they subscribe
Ports == {"p1", "p2"}
NoPort == "null"
NoWriter == "null"
Modes == {"serial", "http"}

VARIABLES
  port,             \* SerialHandler.port
  writer,           \* SerialHandler.writer
  isConnected,      \* SerialHandler.isConnected
  statusListeners,  \* SerialHandler.statusListeners, in subscription order
  serialSupported,  \* 'serial' in navigator
  portState,        \* platform: state of each SerialPort
  plugged,          \* platform: devices physically present
  holders,          \* platform: writers held on each port's writable stream
  calls,            \* the calls suspended at an await (a bag of records)
  ret,              \* the call that returned or threw in the last step
  seen,             \* per callback, <<v>> for the value v it was last invoked
                    \* with, <<>> while it has never been invoked
  work              \* the pure function under study: its input and, once
                    \* applied, its output (unused by the connection manager)

manager == <<port, writer, isConnected, statusListeners, serialSupported,
             portState, plugged, holders, calls, ret, seen>>

vars == <<port, writer, isConnected, statusListeners, serialSupported,
          portState, plugged, holders, calls, ret, seen, work>>

NoWork == [fn |-> "none"]

Range(s) == {s[i] : i \in 1..Len(s)}

\* A call suspended at an await: its operation, its position, the port its
\* pending platform promise is about, and the connected flag at its start.
Call(op, pc, lp, c0) == [op |-> op, pc |-> pc, lp |-> lp, c0 |-> c0]

\* A call that has returned or thrown: res is its result, told the listener
\* invocations it made, in order, c0 the connected flag at its start (kept
\* for connect only) and lp the port it opened, closed or wrote to.
Ret(op, res, told, c0, lp) ==
  [op |-> op, res |-> res, told |-> told, c0 |-> c0, lp |-> lp]
NoRet == Ret("none", "none", <<>>, FALSE, NoPort)
NoCall == Call("none", "none", NoPort, FALSE)   \* a call not suspended yet

Suspended == BagToSet(calls)
Room == BagCardinality(calls) < MaxCalls
Suspend(c) == calls (+) SetToBag({c})
Move(c, d) == (calls (-) SetToBag({c})) (+) SetToBag({d})
Settle(c) == calls (-) SetToBag({c})

\* The manager as constructed.
Constructed ==
  /\ port = NoPort
  /\ writer = NoWriter
  /\ isConnected = FALSE
  /\ statusListeners = <<>>
  /\ serialSupported \in BOOLEAN
  /\ portState = [p \in Ports |-> "closed"]
  /\ plugged = Ports
  /\ holders = [p \in Ports |-> 0]
  /\ calls = EmptyBag
  /\ ret = NoRet
  /\ seen = [l \in Listeners |-> <<>>]

Init == Constructed /\ work = NoWork

\* ------------------------------------------------------------- listeners
\* Faulty variant of Notify: the callbacks are invoked last subscriber first.
NotifyReversed(status) ==
  [i \in 1..Len(statusListeners) |->
     <<statusListeners[Len(statusListeners) + 1 - i], status>>]

\* statusListeners.forEach(cb => cb(status)): the invocations, in order.
Notify(status) ==
  [i \in 1..Len(statusListeners) |-> <<statusListeners[i], status>>]

\* Faulty variant of SetConnected: the flag is stored and the most recently
\* subscribed callback is left out of the notification.
SetConnectedSkipsLast(status) ==
  /\ isConnected' = status
  /\ seen' = [l \in Listeners |->
               IF \E i \in 1..(Len(Notify(status)) - 1) : Notify(status)[i][1] = l
                 THEN <<status>> ELSE seen[l]]

\* setConnected(status)
SetConnected(status) ==
  /\ isConnected' = status
  /\ seen' = [l \in Listeners |->
               IF \E i \in 1..Len(Notify(status)) : Notify(status)[i][1] = l
                 THEN <<status>> ELSE seen[l]]

\* Faulty variant of Replay: the new callback is invoked with false, whatever the
\* current status.
ReplayFalse(l) == <<<<l, FALSE>>>>

\* onStatusChange(callback): push, then invoke with the current status.
Replay(l) == <<<<l, isConnected>>>>

OnStatusChange(l) ==
  /\ l = Len(statusListeners) + 1
  /\ statusListeners' = Append(statusListeners, l)
  /\ seen' = [k \in Listeners |->
               IF \E i \in 1..Len(Replay(l)) : Replay(l)[i][1] = k
                 THEN <<Replay(l)[1][2]>> ELSE seen[k]]
  /\ ret' = Ret("onStatusChange", "ok", Replay(l), FALSE, NoPort)
  /\ UNCHANGED <<port, writer, isConnected, serialSupported, portState,
                 plugged, holders, calls>>

\* -------------------------------------------------------------- platform
\* SerialPort.open() rejects at once unless the port is closed.
OpenRejected(p) == portState[p] # "closed"

\* SerialPort.close() rejects at once unless the port is open, and rejects
\* while the writable stream is locked by a writer.
CloseRejected(p) == portState[p] # "open" \/ holders[p] # 0

\* port.writable (and port.readable) is non-null only on an open port whose
\* device is present.
Writable(p) == portState[p] = "open" /\ p \in plugged

\* Faulty variant of GetWriterThrows: a writer is handed out on a locked stream.
GetWriterNeverThrows(p) == FALSE

\* writable.getWriter() throws a TypeError while the stream is locked.
GetWriterThrows(p) == holders[p] # 0

\* ---------------------------------------------------------------- connect
\* Faulty variant of ConnectError: a failed open is reported as a
\* cancellation.
ConnectErrorOpenAsCancel(name) ==
  CASE name \in {"NotFoundError", "NetworkError"} -> "No device selected"
    [] name = "SecurityError" -> "Security Error"
    [] OTHER -> name

\* The error connect() throws for a rejection named name (catch block).
ConnectError(name) ==
  CASE name = "NotFoundError" -> "No device selected"
    [] name = "SecurityError" -> "Security Error"
    [] name = "NetworkError" -> "Network Error"
    [] OTHER -> name

\* Faulty variant of ConnectCatch: the catch block throws without setConnected(false).
ConnectCatchSilent(name, c0, lp) ==
  /\ ret' = Ret("connect", ConnectError(name), <<>>, c0, lp)
  /\ UNCHANGED <<isConnected, seen>>

\* The catch block of connect(): setConnected(false), then throw.
ConnectCatch(name, c0, lp) ==
  /\ SetConnected(FALSE)
  /\ ret' = Ret("connect", ConnectError(name), Notify(FALSE), c0, lp)

\* connect() up to `await navigator.serial.requestPort({})`.
Connect ==
  /\ IF ~serialSupported
       THEN /\ ret' = Ret("connect", "Not supported", <<>>, isConnected, NoPort)
            /\ UNCHANGED calls
       ELSE /\ Room
            /\ calls' = Suspend(Call("connect", "picking", NoPort, isConnected))
            /\ ret' = NoRet
  /\ UNCHANGED <<port, writer, isConnected, statusListeners, serialSupported,
                 portState, plugged, holders, seen>>

\* requestPort resolved with p: this.port = port, then port.open() is called.
ConnectPicked(c, p) ==
  /\ c \in Suspended /\ c.op = "connect" /\ c.pc = "picking"
  /\ p \in plugged
  /\ port' = p
  /\ IF OpenRejected(p)
       THEN /\ ConnectCatch("InvalidStateError", c.c0, p)
            /\ calls' = Settle(c)
            /\ UNCHANGED portState
       ELSE /\ portState' = [portState EXCEPT ![p] = "opening"]
            /\ calls' = Move(c, Call("connect", "opening", p, c.c0))
            /\ ret' = NoRet
            /\ UNCHANGED <<isConnected, seen>>
  /\ UNCHANGED <<writer, statusListeners, serialSupported, plugged, holders>>

\* requestPort rejected (picker cancelled, security): the catch block.
ConnectRefused(c, name) ==
  /\ c \in Suspended /\ c.op = "connect" /\ c.pc = "picking"
  /\ ConnectCatch(name, c.c0, NoPort)
  /\ calls' = Settle(c)
  /\ UNCHANGED <<port, writer, statusListeners, serialSupported, portState,
                 plugged, holders>>

\* port.open() fulfilled: setConnected(true); return true.
ConnectOpened(c) ==
  /\ c \in Suspended /\ c.op = "connect" /\ c.pc = "opening"
  /\ c.lp \in plugged
  /\ portState' = [portState EXCEPT ![c.lp] = "open"]
  /\ SetConnected(TRUE)
  /\ ret' = Ret("connect", "true", Notify(TRUE), c.c0, c.lp)
  /\ calls' = Settle(c)
  /\ UNCHANGED <<port, writer, statusListeners, serialSupported, plugged,
                 holders>>

\* port.open() rejected: the catch block.
ConnectOpenFailed(c) ==
  /\ c \in Suspended /\ c.op = "connect" /\ c.pc = "opening"
  /\ portState' = [portState EXCEPT ![c.lp] = "closed"]
  /\ ConnectCatch("NetworkError", c.c0, c.lp)
  /\ calls' = Settle(c)
  /\ UNCHANGED <<port, writer, statusListeners, serialSupported, plugged,
                 holders>>

\* ------------------------------------------------------ connectToExisting
\* connectToExisting() up to `await navigator.serial.getPorts()`.
ConnectToExisting ==
  /\ IF ~serialSupported
       THEN /\ ret' = Ret("connectToExisting", "false", <<>>, FALSE, NoPort)
            /\ UNCHANGED calls
       ELSE /\ Room
            /\ calls' = Suspend(Call("connectToExisting", "enumerating",
                                     NoPort, FALSE))
            /\ ret' = NoRet
  /\ UNCHANGED <<port, writer, isConnected, statusListeners, serialSupported,
                 portState, plugged, holders, seen>>

\* Faulty variant of ExistingCatch: the caught error is thrown again.
ExistingCatchRethrown(name) == name

\* The catch block of connectToExisting: the error is logged and the call
\* falls through to "return false".
ExistingCatch(name) == "false"

\* getPorts rejected, or resolved with an empty list: return false.
ExistingNone(c, rejected) ==
  /\ c \in Suspended /\ c.op = "connectToExisting" /\ c.pc = "enumerating"
  /\ ret' = Ret("connectToExisting",
                IF rejected THEN ExistingCatch("SecurityError") ELSE "false",
                <<>>, FALSE, NoPort)
  /\ calls' = Settle(c)
  /\ UNCHANGED <<port, writer, isConnected, statusListeners, serialSupported,
                 portState, plugged, holders, seen>>

\* getPorts resolved with ports[0] = p: this.port = p; then the port is found
\* open already, or open() is called (and caught when rejected at once).
ExistingFound(c, p) ==
  /\ c \in Suspended /\ c.op = "connectToExisting" /\ c.pc = "enumerating"
  /\ p \in plugged
  /\ port' = p
  /\ IF Writable(p)
       THEN /\ SetConnected(TRUE)
            /\ ret' = Ret("connectToExisting", "true", Notify(TRUE), FALSE, p)
            /\ calls' = Settle(c)
            /\ UNCHANGED portState
       ELSE IF OpenRejected(p)
       THEN /\ ret' = Ret("connectToExisting",
                          ExistingCatch("InvalidStateError"), <<>>, FALSE, p)
            /\ calls' = Settle(c)
            /\ UNCHANGED <<portState, isConnected, seen>>
       ELSE /\ portState' = [portState EXCEPT ![p] = "opening"]
            /\ calls' = Move(c, Call("connectToExisting", "opening", p, FALSE))
            /\ ret' = NoRet
            /\ UNCHANGED <<isConnected, seen>>
  /\ UNCHANGED <<writer, statusListeners, serialSupported, plugged, holders>>

\* port.open() fulfilled: setConnected(true); return true.
ExistingOpened(c) ==
  /\ c \in Suspended /\ c.op = "connectToExisting" /\ c.pc = "opening"
  /\ c.lp \in plugged
  /\ portState' = [portState EXCEPT ![c.lp] = "open"]
  /\ SetConnected(TRUE)
  /\ ret' = Ret("connectToExisting", "true", Notify(TRUE), FALSE, c.lp)
  /\ calls' = Settle(c)
  /\ UNCHANGED <<port, writer, statusListeners, serialSupported, plugged,
                 holders>>

\* port.open() rejected: caught, return false.
ExistingOpenFailed(c) ==
  /\ c \in Suspended /\ c.op = "connectToExisting" /\ c.pc = "opening"
  /\ portState' = [portState EXCEPT ![c.lp] = "closed"]
  /\ ret' = Ret("connectToExisting", ExistingCatch("NetworkError"), <<>>,
                FALSE, c.lp)
  /\ calls' = Settle(c)
  /\ UNCHANGED <<port, writer, isConnected, statusListeners, serialSupported,
                 plugged, holders, seen>>

\* ------------------------------------------------------ cleanupAndNotify
\* Faulty variant of PortAfterClose: this.port is not cleared.
PortAfterCloseKept == port

\* The port this.port is set to once `await this.port.close()` has settled.
PortAfterClose == NoPort

\* The end of cleanupAndNotify(): setConnected(false); the call returns.  lp
\* is the port the call found held, if any.
CleanupEnd(op, lp) ==
  /\ SetConnected(FALSE)
  /\ ret' = Ret(op, "ok", Notify(FALSE), FALSE, lp)

\* cleanupAndNotify() from `if (this.port)` on, entered by the suspended call
\* c or, with c = NoCall, by a call that has not awaited yet.  With a port it
\* calls close(): a close rejected at once is caught, this.port = null and the
\* end follows; otherwise the call awaits the close.  Without a port the end
\* follows directly.
CleanupPort(c, op) ==
  /\ IF port = NoPort
       THEN /\ CleanupEnd(op, NoPort)
            /\ calls' = Settle(c)
            /\ UNCHANGED <<port, portState>>
       ELSE IF CloseRejected(port)
       THEN /\ port' = PortAfterClose
            /\ CleanupEnd(op, port)
            /\ calls' = Settle(c)
            /\ UNCHANGED portState
       ELSE /\ c \in Suspended \/ Room
            /\ portState' = [portState EXCEPT ![port] = "closing"]
            /\ calls' = Move(c, Call(op, "closing", port, FALSE))
            /\ ret' = NoRet
            /\ UNCHANGED <<port, isConnected, seen>>
  /\ UNCHANGED <<statusListeners, serialSupported, holders>>

\* cleanupAndNotify() from its start: with a writer held it first awaits
\* writer.releaseLock().
CleanupAndNotify(op) ==
  IF writer # NoWriter
    THEN /\ Room
         /\ calls' = Suspend(Call(op, "releasing", NoPort, FALSE))
         /\ ret' = NoRet
         /\ UNCHANGED <<port, writer, isConnected, statusListeners,
                        serialSupported, portState, holders, seen>>
    ELSE CleanupPort(NoCall, op) /\ UNCHANGED writer

\* cleanupAndNotify() resumed after an await: after releaseLock, this.writer =
\* null and on to the port; after close, this.port = null and the end.
CleanupResumed(c) ==
  /\ c \in Suspended /\ c.op \in {"disconnect", "unplug"}
  /\ IF c.pc = "releasing"
       THEN writer' = NoWriter /\ CleanupPort(c, c.op)
       ELSE /\ c.pc = "closing"
            /\ portState' = [portState EXCEPT ![c.lp] = "closed"]
            /\ port' = PortAfterClose
            /\ CleanupEnd(c.op, c.lp)
            /\ calls' = Settle(c)
            /\ UNCHANGED <<writer, statusListeners, serialSupported, holders>>
  /\ UNCHANGED plugged

\* disconnect()
Disconnect ==
  /\ CleanupAndNotify("disconnect")
  /\ UNCHANGED plugged

\* Faulty variant of DisconnectEventHandled: the event is ignored.
DisconnectEventIgnored(p) == FALSE

\* The constructor registers the `disconnect` listener when the platform has
\* serial support, and the listener acts when the event names the held port.
DisconnectEventHandled(p) == serialSupported /\ p = port

\* Faulty variant of Unplug: the handler runs cleanupAndNotify() for every
\* `disconnect` event, whichever port it names.
UnplugAnyPort(p) ==
  /\ p \in plugged
  /\ plugged' = plugged \ {p}
  /\ IF serialSupported
       THEN CleanupAndNotify("unplug")
       ELSE /\ ret' = NoRet
            /\ UNCHANGED <<port, writer, isConnected, statusListeners,
                           serialSupported, portState, holders, calls, seen>>

\* The device of port p is removed; the platform fires `disconnect` at p and
\* the handler registered by the constructor runs cleanupAndNotify() when p is
\* the held port.
Unplug(p) ==
  /\ p \in plugged
  /\ plugged' = plugged \ {p}
  /\ IF DisconnectEventHandled(p)
       THEN CleanupAndNotify("unplug")
       ELSE /\ ret' = NoRet
            /\ UNCHANGED <<port, writer, isConnected, statusListeners,
                           serialSupported, portState, holders, calls, seen>>

\* The device of port p is attached again; its port starts closed.
Replug(p) ==
  /\ p \notin plugged
  /\ holders[p] = 0
  /\ portState[p] \in {"closed", "open"}
  /\ plugged' = plugged \cup {p}
  /\ portState' = [portState EXCEPT ![p] = "closed"]
  /\ ret' = NoRet
  /\ UNCHANGED <<port, writer, isConnected, statusListeners, serialSupported,
                 holders, calls, seen>>

\* ------------------------------------------------------------------ sends
\* Faulty variant of ReleaseLock: the lock is released after a fulfilled write only.
ReleaseLockOnSuccess(p, ok) == IF ok THEN holders[p] - 1 ELSE holders[p]

\* The lock count of port p after `finally { writer.releaseLock() }`, reached
\* whether the write was fulfilled (ok) or rejected.
ReleaseLock(p, ok) == holders[p] - 1

\* Faulty variant of NotConnected: sendText checks the port alone.
NotConnectedPortOnly == port = NoPort

\* The first check of sendText: `!this.port || !this.isConnected`.
NotConnected == port = NoPort \/ ~isConnected

\* sendText(text, channelIndex) up to `await writer.write(combined)`.
SendText ==
  /\ IF NotConnected
       THEN /\ ret' = Ret("sendText", "Serial port not connected", <<>>, FALSE,
                          NoPort)
            /\ UNCHANGED <<holders, calls>>
       ELSE IF ~Writable(port)
       THEN /\ ret' = Ret("sendText", "Serial port not writable", <<>>, FALSE,
                          port)
            /\ UNCHANGED <<holders, calls>>
       ELSE IF GetWriterThrows(port)
       THEN /\ ret' = Ret("sendText", "TypeError", <<>>, FALSE, port)
            /\ UNCHANGED <<holders, calls>>
       ELSE /\ Room
            /\ holders' = [holders EXCEPT ![port] = @ + 1]
            /\ calls' = Suspend(Call("sendText", "writing", port, FALSE))
            /\ ret' = NoRet
  /\ UNCHANGED <<port, writer, isConnected, statusListeners, serialSupported,
                 portState, plugged, seen>>

\* Faulty variant of WriteSettled: a rejected write marks the manager
\* disconnected.
WriteSettledDropsConnection(c, ok) ==
  /\ c \in Suspended /\ c.op = "sendText" /\ c.pc = "writing"
  /\ ok => Writable(c.lp)
  /\ holders' = [holders EXCEPT ![c.lp] = ReleaseLock(c.lp, ok)]
  /\ isConnected' = (isConnected /\ ok)
  /\ ret' = Ret("sendText", IF ok THEN "Message sent" ELSE "WriteError",
             <<>>, FALSE, c.lp)
  /\ calls' = Settle(c)
  /\ UNCHANGED <<port, writer, statusListeners, serialSupported,
                 portState, plugged, seen>>

\* writer.write(combined) settled: the finally block releases the lock; the
\* call returns its message or rethrows the write error.
WriteSettled(c, ok) ==
  /\ c \in Suspended /\ c.op = "sendText" /\ c.pc = "writing"
  /\ ok => Writable(c.lp)
  /\ holders' = [holders EXCEPT ![c.lp] = ReleaseLock(c.lp, ok)]
  /\ ret' = Ret("sendText", IF ok THEN "Message sent" ELSE "WriteError",
             <<>>, FALSE, c.lp)
  /\ calls' = Settle(c)
  /\ UNCHANGED <<port, writer, isConnected, statusListeners, serialSupported,
                 portState, plugged, seen>>

\* Faulty variant of SendToMeshtastic: without a connected device the serial
\* mode falls back to the HTTP request.
SendToMeshtasticFallback(mode) ==
  IF mode = "serial" /\ isConnected
    THEN SendText
    ELSE /\ Room
         /\ calls' = Suspend(Call("sendToMeshtastic", "fetching", NoPort,
                                  FALSE))
         /\ ret' = NoRet
         /\ UNCHANGED <<port, writer, isConnected, statusListeners,
                        serialSupported, portState, plugged, holders, seen>>

\* sendToMeshtastic(config, text) up to its first await: in serial mode the
\* connected check, then `return await serialHandler.sendText(...)`, whose
\* result is the call's result (the pair is one sendText call from there on);
\* otherwise the request of the HTTP path.
SendToMeshtastic(mode) ==
  IF mode = "serial"
    THEN IF ~isConnected
           THEN /\ ret' = Ret("sendToMeshtastic", "Device not connected",
                              <<>>, FALSE, NoPort)
                /\ UNCHANGED <<port, writer, isConnected, statusListeners,
                               serialSupported, portState, plugged, holders,
                               calls, seen>>
           ELSE SendText
    ELSE /\ Room
         /\ calls' = Suspend(Call("sendToMeshtastic", "fetching", NoPort,
                                  FALSE))
         /\ ret' = NoRet
         /\ UNCHANGED <<port, writer, isConnected, statusListeners,
                        serialSupported, portState, plugged, holders, seen>>

\* fetch settled: the response body, an API error for a non-ok status, or the
\* rethrown network failure.
FetchSettled(c, res) ==
  /\ c \in Suspended /\ c.op = "sendToMeshtastic" /\ c.pc = "fetching"
  /\ ret' = Ret("sendToMeshtastic", res, <<>>, FALSE, NoPort)
  /\ calls' = Settle(c)
  /\ UNCHANGED <<port, writer, isConnected, statusListeners, serialSupported,
                 portState, plugged, holders, seen>>

Next ==
  \/ (\E l \in Listeners : OnStatusChange(l)) /\ UNCHANGED work
  \/ Connect /\ UNCHANGED work
  \/ (\E c \in Suspended, p \in Ports : ConnectPicked(c, p)) /\ UNCHANGED work
  \/ (\E c \in Suspended, name \in {"NotFoundError", "SecurityError"} :
        ConnectRefused(c, name)) /\ UNCHANGED work
  \/ (\E c \in Suspended : ConnectOpened(c)) /\ UNCHANGED work
  \/ (\E c \in Suspended : ConnectOpenFailed(c)) /\ UNCHANGED work
  \/ ConnectToExisting /\ UNCHANGED work
  \/ (\E c \in Suspended, rejected \in BOOLEAN : ExistingNone(c, rejected))
       /\ UNCHANGED work
  \/ (\E c \in Suspended, p \in Ports : ExistingFound(c, p)) /\ UNCHANGED work
  \/ (\E c \in Suspended : ExistingOpened(c)) /\ UNCHANGED work
  \/ (\E c \in Suspended : ExistingOpenFailed(c)) /\ UNCHANGED work
  \/ Disconnect /\ UNCHANGED work
  \/ (\E c \in Suspended : CleanupResumed(c)) /\ UNCHANGED work
  \/ (\E p \in Ports : Unplug(p)) /\ UNCHANGED work
  \/ (\E p \in Ports : Replug(p)) /\ UNCHANGED work
  \/ SendText /\ UNCHANGED work
  \/ (\E c \in Suspended, ok \in BOOLEAN : WriteSettled(c, ok))
       /\ UNCHANGED work
  \/ (\E mode \in Modes : SendToMeshtastic(mode)) /\ UNCHANGED work
  \/ (\E c \in Suspended,
         res \in {"Response", "Meshtastic API Error", "FetchError"} :
        FetchSettled(c, res)) /\ UNCHANGED work

Spec == Init /\ [][Next]_vars

\* The platform settles every close() it has accepted, and the event loop then
\* resumes the cleanup that awaits it.
Fairness ==
  \A op \in {"disconnect", "unplug"}, p \in Ports :
    WF_vars(CleanupResumed(Call(op, "closing", p, FALSE)) /\ UNCHANGED work)

FairSpec == Spec /\ Fairness

\* ================================================================== text
\* A JavaScript string is a sequence of UTF-16 code units.  A text is a run of
\* n letters "a" followed by the units of tail; the units of a tail are the
\* full stop U+002E, U+00E9 (two bytes in UTF-8), U+20AC (three bytes) and the
\* two halves U+D83D, U+DE00 of U+1F600 (four bytes as a pair).
Units == {".", "U+00E9", "U+20AC", "U+D83D", "U+DE00"}

RECURSIVE SeqsUpTo(_, _)
SeqsUpTo(S, k) ==
  IF k = 0 THEN {<<>>}
  ELSE LET shorter == SeqsUpTo(S, k - 1)
       IN  shorter \cup {Append(s, x) : s \in shorter, x \in S}

\* String.length
Length(t) == t.n + Len(t.tail)

\* t.slice(0, -1): the string without its last UTF-16 unit.
SliceLast(t) ==
  IF t.tail # <<>> THEN [t EXCEPT !.tail = SubSeq(@, 1, Len(@) - 1)]
  ELSE IF t.n > 0 THEN [t EXCEPT !.n = @ - 1]
  ELSE t

\* t + suffix, for a suffix given by its units.
Concat(t, suffix) == [t EXCEPT !.tail = @ \o suffix]

\* The UTF-8 bytes of a sequence of units, as TextEncoder produces them: a
\* high half followed by a low half is one code point of four bytes, a half
\* on its own is replaced by U+FFFD.
RECURSIVE EncodeUnits(_)
EncodeUnits(u) ==
  IF u = <<>> THEN <<>>
  ELSE IF u[1] = "." THEN <<46>> \o EncodeUnits(Tail(u))
  ELSE IF u[1] = "U+00E9" THEN <<195, 169>> \o EncodeUnits(Tail(u))
  ELSE IF u[1] = "U+20AC" THEN <<226, 130, 172>> \o EncodeUnits(Tail(u))
  ELSE IF u[1] = "U+D83D" /\ Len(u) >= 2 /\ u[2] = "U+DE00"
    THEN <<240, 159, 152, 128>> \o EncodeUnits(Tail(Tail(u)))
  ELSE <<239, 191, 189>> \o EncodeUnits(Tail(u))

\* new TextEncoder().encode(t)
TextEncode(t) == [i \in 1..t.n |-> 97] \o EncodeUnits(t.tail)

\* ============================================================= truncation
\* The truncation step of the serial path of sendToMeshtastic.
MAX_BYTES == 190

\* Faulty variant of Ellipsis: two full stops.
EllipsisShort == <<".", ".">>

\* const ellipsis = "..."
Ellipsis == <<".", ".", ".">>

\* while (encoder.encode(safeText + suffix).length > MAX_BYTES)
\*   safeText = safeText.slice(0, -1)
RECURSIVE TrimTo(_, _)
TrimTo(safeText, suffix) ==
  IF Len(TextEncode(Concat(safeText, suffix))) > MAX_BYTES
    THEN TrimTo(SliceLast(safeText), suffix)
    ELSE safeText

\* The first loop: trim the text itself to the budget.
FirstPass(text) == TrimTo(text, <<>>)

\* Faulty variant of Truncated: the ellipsis branch is always taken.
TruncatedAlways(safeText, text) == TRUE

\* if (safeText.length < text.length)
Truncated(safeText, text) == Length(safeText) < Length(text)

\* Faulty variant of SecondPass: no room is made for the ellipsis.
SecondPassSkipped(safeText) == safeText

\* The second loop: trim until the text and the ellipsis fit together.
SecondPass(safeText) == TrimTo(safeText, Ellipsis)

\* Faulty variant of SafeText: the text is passed on as it came.
SafeTextUntouched(text) == text

\* The text handed to sendText for the input text.
SafeText(text) ==
  LET safeText == FirstPass(text)
  IN  IF Truncated(safeText, text)
        THEN Concat(SecondPass(safeText), Ellipsis)
        ELSE safeText

\* The inputs: no letters or a run of letters that ends near the budget, then
\* up to MaxTail units of any kind.
PrefixLengths == {0} \cup ((MAX_BYTES - PrefixSlack)..(MAX_BYTES + 1))
Texts == {[n |-> n, tail |-> tail] :
            n \in PrefixLengths, tail \in SeqsUpTo(Units, MaxTail)}

TruncInit ==
  /\ Constructed /\ serialSupported
  /\ work \in {[fn |-> "truncate", pc |-> "input", text |-> t, safeText |-> t,
                 again |-> t] : t \in Texts}

\* The truncation step applied to the input text.
Truncate ==
  /\ work.fn = "truncate" /\ work.pc = "input"
  /\ work' = [work EXCEPT !.pc = "once", !.safeText = SafeText(work.text)]
  /\ UNCHANGED manager

\* The truncation step applied to the text it produced.
Retruncate ==
  /\ work.fn = "truncate" /\ work.pc = "once"
  /\ work' = [work EXCEPT !.pc = "twice", !.again = SafeText(work.safeText)]
  /\ UNCHANGED manager

TruncNext == Truncate \/ Retruncate

TruncSpec == TruncInit /\ [][TruncNext]_vars

\* ============================================================ ProtoBuilder
\* An unsigned 32-bit integer is kept as its two 16-bit halves, so that no
\* value leaves the range of TLC's 32-bit signed integers.  The argument of
\* addVarint and addFixed32 is such an integer after `>>> 0`.
U32(n) == [hi |-> (n \div 65536) % 65536, lo |-> n % 65536]

\* value > 127
Over127(value) == value.hi > 0 \/ value.lo > 127

\* value >>> 7
Shr7(value) == [hi |-> value.hi \div 128,
                lo |-> (value.lo \div 128) + 512 * (value.hi % 128)]

\* Faulty variant of VarintBytes: the loop runs while value > 128, so 128 is
\* pushed as a last byte.
RECURSIVE VarintBytesLate(_)
RECURSIVE VarintBytes(_)
VarintBytesLate(value) ==
  IF value.hi > 0 \/ value.lo > 128
    THEN <<(value.lo % 128) + 128>> \o VarintBytesLate(Shr7(value))
    ELSE <<value.lo>>

\* The bytes addVarint pushes: while (value > 127) push (value & 0x7F) | 0x80
\* and shift right by 7; then push value.
VarintBytes(value) ==
  IF Over127(value)
    THEN <<(value.lo % 128) + 128>> \o VarintBytes(Shr7(value))
    ELSE <<value.lo>>

AddVarint(buffer, value) == buffer \o VarintBytes(value)

\* (fieldId << 3) | wireType, for wire types below 8
AddTag(buffer, fieldId, wireType) ==
  AddVarint(buffer, U32(fieldId * 8 + wireType))

AddString(buffer, fieldId, text) ==
  LET encoded == TextEncode(text)
  IN  AddVarint(AddTag(buffer, fieldId, 2), U32(Len(encoded))) \o encoded

AddBool(buffer, fieldId, value) ==
  AddVarint(AddTag(buffer, fieldId, 0), U32(IF value THEN 1 ELSE 0))

\* Faulty variant of AddUInt32: a field of value 0 is left out.
AddUInt32SkipZero(buffer, fieldId, value) ==
  IF value = [hi |-> 0, lo |-> 0] THEN buffer
  ELSE AddVarint(AddTag(buffer, fieldId, 0), value)

AddUInt32(buffer, fieldId, value) ==
  AddVarint(AddTag(buffer, fieldId, 0), value)

\* Faulty variant of AddFixed32: most significant byte first.
AddFixed32BigEndian(buffer, fieldId, value) ==
  AddTag(buffer, fieldId, 5)
    \o <<value.hi \div 256, value.hi % 256, value.lo \div 256, value.lo % 256>>

\* Four bytes, least significant first.
AddFixed32(buffer, fieldId, value) ==
  AddTag(buffer, fieldId, 5)
    \o <<value.lo % 256, value.lo \div 256, value.hi % 256, value.hi \div 256>>

AddNested(buffer, fieldId, bytes) ==
  AddVarint(AddTag(buffer, fieldId, 2), U32(Len(bytes))) \o bytes

\* The halves at which the number of significant bits changes.
HalfEdges == {0, 65535} \cup {2^k - 1 : k \in 1..15} \cup {2^k : k \in 0..15}
VarintValues == {[hi |-> h, lo |-> l] : h \in HalfEdges, l \in HalfEdges}

VarintInit ==
  /\ Constructed /\ serialSupported
  /\ work \in {[fn |-> "addVarint", pc |-> "input", value |-> v,
                 buffer |-> <<>>] : v \in VarintValues}

\* addVarint(value) on an empty builder.
EncodeVarint ==
  /\ work.fn = "addVarint" /\ work.pc = "input"
  /\ work' = [work EXCEPT !.pc = "encoded",
                          !.buffer = AddVarint(<<>>, work.value)]
  /\ UNCHANGED manager

VarintNext == EncodeVarint

VarintSpec == VarintInit /\ [][VarintNext]_vars

\* ================================================================ framing
\* The part of sendText between its guards and the write: the protobuf bytes
\* of the message, the four-byte header, and the frame handed to the writer.
DataPb(text) == AddString(AddUInt32(<<>>, 1, U32(1)), 2, text)

MeshPacketPb(text, channelIndex, packetId) ==
  LET from    == AddFixed32(<<>>, 1, U32(0))
      to      == AddFixed32(from, 2, [hi |-> 65535, lo |-> 65535])
      channel == AddUInt32(to, 3, U32(channelIndex))
      decoded == AddNested(channel, 4, DataPb(text))
      id      == AddFixed32(decoded, 6, packetId)
      hops    == AddUInt32(id, 10, U32(3))
  IN  AddBool(hops, 11, TRUE)

\* toRadioPb.getBytes()
ProtoBytes(text, channelIndex, packetId) ==
  AddNested(<<>>, 1, MeshPacketPb(text, channelIndex, packetId))

\* [0x94, 0xC3, (length >>> 8) & 0xFF, length & 0xFF]
Header(protoBytes) ==
  <<148, 195, (Len(protoBytes) \div 256) % 256, Len(protoBytes) % 256>>

Combined(protoBytes) == Header(protoBytes) \o protoBytes

\* The largest payload length two bytes can hold.
LengthFieldMax == 256 * 256 - 1

\* Channel indices the settings form accepts.
MaxChannelIndex == 7

\* Math.floor(Math.random() * 0xFFFFFFFF): the least, the greatest and one
\* value in between.
PacketIds == {[hi |-> 0, lo |-> 0], [hi |-> 4660, lo |-> 22136],
              [hi |-> 65535, lo |-> 65534]}

\* The texts framed: those without a run of letters, and runs of letters as
\* long as make the payload (the text and the 35 bytes of fields around a
\* text of that size) reach the largest length two bytes can hold.
FrameTexts ==
  {t \in Texts : t.n = 0}
    \cup {[n |-> n, tail |-> <<>>] :
            n \in (LengthFieldMax - 35 - EdgeSlack)
                    ..(LengthFieldMax - 35 + EdgeSlack)}

FrameInit ==
  /\ Constructed /\ serialSupported
  /\ work \in {[fn |-> "sendText", pc |-> "input", text |-> t,
                 channelIndex |-> ch, packetId |-> id, res |-> "none",
                 combined |-> <<>>] :
                t \in FrameTexts, ch \in 0..MaxChannelIndex, id \in PacketIds}

\* sendText past its guards: build the frame and write it.
FrameAndWrite ==
  /\ work.fn = "sendText" /\ work.pc = "input"
  /\ work' = [work EXCEPT
       !.pc = "written",
       !.combined = Combined(ProtoBytes(work.text, work.channelIndex,
                                        work.packetId)),
       !.res = "Message sent to Serial (Binary)"]
  /\ UNCHANGED manager

FrameNext == FrameAndWrite

FrameSpec == FrameInit /\ [][FrameNext]_vars

\* =============================================================== dispatch
\* One call of sendToMeshtastic followed from its arguments to its result:
\* the control flow is that of the actions SendToMeshtastic, WriteSettled and
\* FetchSettled, and work records the data the call hands to each transport.
\* The manager is as constructed, or connected to an open port.
ConnectedTo(p) ==
  /\ port = p
  /\ writer = NoWriter
  /\ isConnected = TRUE
  /\ statusListeners = <<>>
  /\ serialSupported = TRUE
  /\ portState = [q \in Ports |-> IF q = p THEN "open" ELSE "closed"]
  /\ plugged = Ports
  /\ holders = [q \in Ports |-> 0]
  /\ calls = EmptyBag
  /\ ret = NoRet
  /\ seen = [l \in Listeners |-> <<>>]

\* config.connectionMode as it may be read back from storage: the two modes
\* of the type, or any other string.
DispatchModes == Modes \cup {"other"}

DispatchTexts == {t \in Texts : Len(t.tail) <= 1}

DispatchInit ==
  /\ (Constructed /\ serialSupported) \/ ConnectedTo("p1")
  /\ work \in {[fn |-> "sendToMeshtastic", pc |-> "called", mode |-> m,
                 text |-> t, channelIndex |-> ch,
                 packetId |-> [hi |-> 4660, lo |-> 22136],
                 written |-> <<>>, requests |-> <<>>, res |-> "none"] :
                m \in DispatchModes, t \in DispatchTexts,
                ch \in 0..MaxChannelIndex}

\* The call up to its first await: what it has written to the port's writer
\* (the frame of the truncated text) and what it has requested with fetch
\* (the payload with the text as passed in).
Dispatch ==
  /\ work.fn = "sendToMeshtastic" /\ work.pc = "called"
  /\ SendToMeshtastic(work.mode)
  /\ LET wrote == holders' # holders
         fetched == calls' # calls /\ ~wrote
     IN  work' = [work EXCEPT
           !.pc = IF ret' = NoRet THEN "awaiting" ELSE "returned",
           !.res = ret'.res,
           !.written =
              IF wrote
                THEN <<Combined(ProtoBytes(SafeText(work.text),
                                           work.channelIndex, work.packetId))>>
                ELSE <<>>,
           !.requests =
              IF fetched
                THEN <<[text |-> work.text, channel |-> work.channelIndex]>>
                ELSE <<>>]

\* The awaited write settles and the call returns or rethrows.
DispatchWriteSettled ==
  /\ work.fn = "sendToMeshtastic" /\ work.pc = "awaiting"
  /\ \E c \in Suspended, ok \in BOOLEAN : WriteSettled(c, ok)
  /\ work' = [work EXCEPT !.pc = "returned", !.res = ret'.res]

\* The awaited fetch settles and the call returns or rethrows.
DispatchFetchSettled ==
  /\ work.fn = "sendToMeshtastic" /\ work.pc = "awaiting"
  /\ \E c \in Suspended,
        res \in {"Response", "Meshtastic API Error", "FetchError"} :
       FetchSettled(c, res)
  /\ work' = [work EXCEPT !.pc = "returned", !.res = ret'.res]

DispatchNext == Dispatch \/ DispatchWriteSettled \/ DispatchFetchSettled

DispatchSpec == DispatchInit /\ [][DispatchNext]_vars

\* ================================================================ claims
SendOps == {"sendText", "sendToMeshtastic"}

\* Every subscribed callback invoked with v, in subscription order.
InOrder(v) == [i \in 1..Len(statusListeners) |-> <<statusListeners[i], v>>]

\* The number of suspended calls awaiting a write on port p.
Writing(p) == CopiesIn(Call("sendText", "writing", p, FALSE), calls)

\* C1: whenever the connected flag is false the manager holds no port.  Stated
\* at the states where no call is in flight, where the claim asks least.
C1_NoPortUnlessConnected ==
  (calls = EmptyBag /\ ~isConnected) => port = NoPort

\* C2 as claimed: a connect() that began Disconnected and failed leaves the
\* state Disconnected and has invoked no listener.
C2_FailedConnectSilent ==
  (ret.op = "connect" /\ ret.res # "true" /\ ~ret.c0)
    => (~isConnected /\ ret.told = <<>>)

\* C2 as amended: a connect() that began Disconnected and failed leaves the
\* state Disconnected and has told no listener true: it has invoked every
\* subscribed listener once with false, in subscription order, or no listener
\* at all when it failed because Web Serial is not supported.
C2_FailedConnectTellsFalse ==
  (ret.op = "connect" /\ ret.res # "true" /\ ~ret.c0)
    => /\ ~isConnected
       /\ ret.told = IF ret.res = "Not supported" THEN <<>> ELSE InOrder(FALSE)

\* C2 witness: a connect() begun Disconnected was cancelled in the picker with
\* a listener subscribed.
C2_Witness ==
  /\ ret.op = "connect" /\ ret.res = "No device selected" /\ ~ret.c0
  /\ Len(statusListeners) >= 1 /\ ret.told = InOrder(FALSE)

\* C3: when disconnect() completes, no writer is held on the device it found,
\* that device is closed, the handle is cleared, the state is Disconnected and
\* the listeners have been told false.  Stated for the two cases the claim
\* names: a disconnect() with no other call in flight, and one called while
\* sends are in flight.
C3_DisconnectReleasesAndCloses ==
  (ret.op = "disconnect" /\ \A c \in Suspended : c.op \in SendOps)
    => /\ port = NoPort
       /\ ~isConnected
       /\ ret.told = InOrder(FALSE)
       /\ ret.lp # NoPort
            => (holders[ret.lp] = 0 /\ portState[ret.lp] = "closed")

\* C4: every disconnect() returns without an error, with the handle cleared,
\* the state Disconnected and the listeners told false, whether close() was
\* rejected or fulfilled; and a disconnect() awaiting close() does return.
C4_DisconnectAlwaysCompletes ==
  /\ [](ret.op = "disconnect"
          => /\ ret.res = "ok"
             /\ port = NoPort
             /\ ~isConnected
             /\ ret.told = InOrder(FALSE))
  /\ \A p \in Ports :
       (Call("disconnect", "closing", p, FALSE) \in Suspended)
         ~> (ret.op = "disconnect" /\ ret.lp = p)

\* C4 witness: a disconnect() that awaited close() has returned.
C4_Witness ==
  /\ ret.op = "disconnect" /\ ret.res = "ok" /\ ret.lp # NoPort
  /\ portState[ret.lp] = "closed" /\ Len(ret.told) >= 1

\* C5: a serial send begun while the manager is not Connected (flag false, or
\* no port) throws its not-connected error, acquires no writer and starts no
\* write.
C5_SendWhileDisconnectedRejected ==
  [][((~isConnected \/ port = NoPort)
        /\ (SendText \/ SendToMeshtastic("serial")))
       => /\ ret'.res \in {"Serial port not connected", "Device not connected"}
          /\ UNCHANGED <<holders, calls>>]_vars

\* C5 witness: sendText was rejected while the held port was open and
\* writable but the connected flag false.
C5_Witness ==
  /\ ret.op = "sendText" /\ ret.res = "Serial port not connected"
  /\ port # NoPort /\ Writable(port) /\ ~isConnected

\* C6: every writer held belongs to a call still awaiting its write: a send
\* that has returned or thrown holds none.
C6_WriterReleasedOnEveryExit ==
  \A p \in Ports : holders[p] = Writing(p)

\* C6 witness: a send whose write failed has thrown and its port is unlocked.
C6_Witness ==
  /\ ret.op \in SendOps /\ ret.res = "WriteError"
  /\ holders[ret.lp] = 0

\* C7: at most one writer is held on a port's sink, and at most one send is
\* writing to it.
C7_AtMostOneWriter ==
  \A p \in Ports : holders[p] <= 1 /\ Writing(p) <= 1

\* C7 witness: a send was attempted while another send held the writer.
C7_Witness ==
  /\ ret.op \in SendOps /\ ret.res = "TypeError"
  /\ holders[ret.lp] = 1 /\ Writing(ret.lp) = 1

\* C8: a send begun while another send holds the write handle does not fail
\* because of it.
C8_SecondSendWaits ==
  ~(ret.op \in SendOps /\ ret.res = "TypeError")

\* C9: subscribing invokes the new callback, within the subscribing step, with
\* the connected flag of that moment, and nothing was delivered to it before.
C9_ReplayOnSubscribe ==
  [][\A l \in Listeners :
       (l \notin Range(statusListeners) /\ l \in Range(statusListeners'))
         => /\ seen[l] = <<>>
            /\ seen'[l] = <<isConnected>>
            /\ isConnected' = isConnected
            /\ ret'.op = "onStatusChange"
            /\ ret'.told = <<<<l, isConnected>>>>]_vars

\* C9 witness: a callback subscribed while Connected was invoked with true.
C9_Witness ==
  /\ ret.op = "onStatusChange" /\ isConnected
  /\ ret.told = <<<<statusListeners[Len(statusListeners)], TRUE>>>>

\* C10: a step that changes the connected flag invokes every subscribed
\* callback with the new value, within the step and in subscription order.
C10_TransitionNotifiesInOrder ==
  [][isConnected' # isConnected
       => /\ statusListeners' = statusListeners
          /\ ret'.told = [i \in 1..Len(statusListeners) |->
                            <<statusListeners[i], isConnected'>>]
          /\ \A l \in Range(statusListeners) : seen'[l] = <<isConnected'>>]_vars

\* C10 witness: a connect() has told two subscribed callbacks true, in order.
C10_Witness ==
  /\ ret.op = "connect" /\ isConnected /\ Len(statusListeners) >= 2
  /\ ret.told = InOrder(TRUE)

\* C11: a `disconnect` event that names the held device runs the cleanup of
\* disconnect(): the cleanup starts in the step of the event, once past the
\* pending close it returns, and when it returns the manager is Disconnected,
\* the handle is cleared and every listener has been told false, in order.
C11_UnplugRunsCleanup ==
  /\ [][\A p \in Ports :
         (p \in plugged /\ p \notin plugged' /\ serialSupported /\ p = port)
           => \/ ret'.op = "unplug" /\ ret'.lp = p
              \/ Call("unplug", "closing", p, FALSE) \in BagToSet(calls')]_vars
  /\ [](ret.op = "unplug"
          => /\ ret.res = "ok"
             /\ port = NoPort
             /\ ~isConnected
             /\ ret.told = InOrder(FALSE))
  /\ \A p \in Ports :
       (Call("unplug", "closing", p, FALSE) \in Suspended)
         ~> (ret.op = "unplug" /\ ret.lp = p)

\* C11 witness: the cleanup started by the removal of the held device has
\* awaited close() and returned after telling every listener.
C11_Witness ==
  /\ ret.op = "unplug" /\ ret.res = "ok"
  /\ ret.lp \in Ports \ plugged
  /\ Len(ret.told) = MaxListeners
  /\ portState[ret.lp] = "closed"

\* C12: connectToExisting() never throws and never opens the device picker: it
\* waits only for the port enumeration and for open(), and whatever happens it
\* returns a boolean, true exactly when the port it took is open and false
\* when serial is unsupported, no port is granted, or enumerating or opening
\* failed.
C12_ConnectToExistingReturnsBoolean ==
  /\ \A c \in Suspended :
       c.op = "connectToExisting" => c.pc \in {"enumerating", "opening"}
  /\ ret.op = "connectToExisting"
       => /\ ret.res \in {"true", "false"}
          /\ ret.res = "true"
               <=> (ret.lp # NoPort /\ portState[ret.lp] = "open")
          /\ ret.res = "false" => ret.told = <<>>

\* C12 witness: a connectToExisting() whose open() was rejected has returned.
C12_Witness ==
  /\ ret.op = "connectToExisting" /\ ret.res = "false"
  /\ ret.lp # NoPort /\ portState[ret.lp] = "closed"

\* C13: a connect() whose picker was accepted and whose device opened returns
\* with the manager Connected, holding the device that was picked, after
\* telling every listener true in order.
C13_ConnectEndsConnectedOnPicked ==
  (ret.op = "connect" /\ ret.res = "true")
    => /\ isConnected
       /\ port = ret.lp
       /\ ret.told = InOrder(TRUE)

\* The UTF-8 length of a text.
Bytes(t) == Len(TextEncode(t))

\* No half of a two-unit code point stands on its own in the units u.
RECURSIVE WellFormed(_)
WellFormed(u) ==
  IF u = <<>> THEN TRUE
  ELSE IF u[1] = "U+D83D"
    THEN Len(u) >= 2 /\ u[2] = "U+DE00" /\ WellFormed(Tail(Tail(u)))
  ELSE u[1] # "U+DE00" /\ WellFormed(Tail(u))

\* prefix is the first units of text.
IsPrefix(prefix, text) ==
  /\ prefix.n <= text.n
  /\ prefix.n < text.n => prefix.tail = <<>>
  /\ Len(prefix.tail) <= Len(text.tail)
  /\ prefix.tail = SubSeq(text.tail, 1, Len(prefix.tail))

\* C14: whatever the input text, the text the truncation step produces has
\* at most 190 UTF-8 bytes.
C14_OutputWithinBudget ==
  (work.fn = "truncate" /\ work.pc = "once") => Bytes(work.safeText) <= 190

\* C14 witness: an input over the budget has been truncated.
C14_Witness ==
  /\ work.fn = "truncate" /\ work.pc = "once"
  /\ Bytes(work.text) > 190
  /\ Bytes(work.safeText) = 190

\* C15: the truncation step removes whole characters only: the text produced
\* from a well-formed input holds no half of a two-unit code point.
C15_NeverSplitsCodePoint ==
  (work.fn = "truncate" /\ work.pc = "once" /\ WellFormed(work.text.tail))
    => WellFormed(work.safeText.tail)

\* C16: truncation is idempotent: a text already within 190 bytes comes back
\* unchanged, with no ellipsis, and the text it produced comes back unchanged
\* when the step is applied to it again.
C16_TruncationIdempotent ==
  work.fn = "truncate"
    => /\ (work.pc = "once" /\ Bytes(work.text) <= 190)
            => work.safeText = work.text
       /\ work.pc = "twice" => work.again = work.safeText

\* C16 witness: the step has been applied again to a text it had cut.
C16_Witness ==
  /\ work.fn = "truncate" /\ work.pc = "twice"
  /\ Bytes(work.text) > 190
  /\ work.safeText # work.text

\* C17: an input over 190 bytes comes back as a proper prefix of the input
\* that fits in 187 bytes, followed by "..."; an input within 190 bytes loses
\* nothing and gets no ellipsis.
C17_EllipsisIffDropped ==
  (work.fn = "truncate" /\ work.pc = "once")
    => IF Bytes(work.text) > 190
         THEN LET kept == SliceLast(SliceLast(SliceLast(work.safeText)))
              IN  /\ work.safeText = Concat(kept, <<".", ".", ".">>)
                  /\ IsPrefix(kept, work.text)
                  /\ Length(kept) < Length(work.text)
                  /\ Bytes(kept) <= 187
         ELSE work.safeText = work.text

\* C17 witness: an input over the budget was cut inside its run of letters
\* and the ellipsis follows the letters kept.
C17_Witness ==
  /\ work.fn = "truncate" /\ work.pc = "once"
  /\ Bytes(work.text) > 190
  /\ work.safeText.n < work.text.n
  /\ work.safeText.tail = <<".", ".", ".">>

\* The value a varint decoder reads from bytes: seven bits a byte, least
\* significant group first, up to the first byte without the bit 0x80.
RECURSIVE VarintDecode(_)
VarintDecode(bytes) ==
  IF bytes = <<>> THEN [hi |-> 0, lo |-> 0]
  ELSE IF bytes[1] < 128 THEN [hi |-> 0, lo |-> bytes[1]]
  ELSE LET rest == VarintDecode(Tail(bytes))
           low  == 128 * rest.lo + (bytes[1] % 128)
       IN  [hi |-> (128 * rest.hi + (low \div 65536)) % 65536,
            lo |-> low % 65536]

\* The number of significant bits of n, none for 0.
RECURSIVE BitLength(_)
BitLength(n) == IF n = 0 THEN 0 ELSE 1 + BitLength(n \div 2)

BitsNeeded(value) ==
  IF value.hi > 0 THEN 16 + BitLength(value.hi) ELSE BitLength(value.lo)

\* The bytes carry the value seven bits at a time, least significant group
\* first, with the bit 0x80 on every byte but the last, and decode to it.
VarintShape(value, bytes) ==
  /\ Len(bytes) >= 1
  /\ \A i \in 1..(Len(bytes) - 1) : bytes[i] >= 128
  /\ bytes[Len(bytes)] < 128
  /\ VarintDecode(bytes) = value

\* C20 as stated: the encoding has the varint shape, decodes to the value and
\* has ceil(bits_needed / 7) bytes for every value, 0 included.
C20_VarintLengthCeil ==
  (work.fn = "addVarint" /\ work.pc = "encoded")
    => /\ VarintShape(work.value, work.buffer)
       /\ Len(work.buffer) = (BitsNeeded(work.value) + 6) \div 7

\* C20 amended: the encoding has the varint shape and decodes to the value;
\* it has ceil(bits_needed / 7) bytes for a value other than 0, and one byte
\* for the value 0, which needs no bits.
C20_VarintRoundTrip ==
  (work.fn = "addVarint" /\ work.pc = "encoded")
    => /\ VarintShape(work.value, work.buffer)
       /\ Len(work.buffer) = IF work.value = [hi |-> 0, lo |-> 0] THEN 1
                             ELSE (BitsNeeded(work.value) + 6) \div 7

\* C20 witness: the value 0 has been encoded, as the single byte 0.
C20_Witness ==
  /\ work.fn = "addVarint" /\ work.pc = "encoded"
  /\ work.value = [hi |-> 0, lo |-> 0]
  /\ work.buffer = <<0>>

\* C18: in every frame sendText writes, the two bytes after 0x94 0xC3 are,
\* most significant first, the number of payload bytes that follow them.
C18_LengthFieldIsPayloadLength ==
  (work.fn = "sendText" /\ work.pc = "written")
    => /\ Len(work.combined) >= 4
       /\ work.combined[1] = 148 /\ work.combined[2] = 195
       /\ 256 * work.combined[3] + work.combined[4] = Len(work.combined) - 4

\* C19: framing a payload of more than 65535 bytes fails with an
\* EncodingError and writes nothing.
C19_OversizePayloadRejected ==
  (/\ work.fn = "sendText" /\ work.pc = "written"
   /\ Len(ProtoBytes(work.text, work.channelIndex, work.packetId)) > 65535)
    => work.res = "EncodingError" /\ work.combined = <<>>

\* The reference varint of a natural number.
RECURSIVE RefVarint(_)
RefVarint(n) ==
  IF n < 128 THEN <<n>> ELSE <<128 + (n % 128)>> \o RefVarint(n \div 128)

\* The reference encoding of Data{1: portnum = 1, 2: text}.
RefData(text) ==
  LET utf8 == TextEncode(text)
  IN  <<8, 1, 18>> \o RefVarint(Len(utf8)) \o utf8

\* The reference encoding of MeshPacket{1: from = 0, 2: to = 0xFFFFFFFF,
\* 3: channel, 4: Data, 6: id, 10: hopLimit = 3, 11: wantAck = 1}.
RefMeshPacket(text, channel, id) ==
  LET data == RefData(text)
  IN  <<13, 0, 0, 0, 0>> \o <<21, 255, 255, 255, 255>>
        \o <<24>> \o RefVarint(channel)
        \o <<34>> \o RefVarint(Len(data)) \o data
        \o <<53, id.lo % 256, id.lo \div 256, id.hi % 256, id.hi \div 256>>
        \o <<80, 3>> \o <<88, 1>>

\* The reference encoding of ToRadio{1: MeshPacket}.
RefToRadio(text, channel, id) ==
  LET packet == RefMeshPacket(text, channel, id)
  IN  <<10>> \o RefVarint(Len(packet)) \o packet

\* The bytes of a frame after its four-byte header.
Payload(combined) == SubSeq(combined, 5, Len(combined))

\* C21: the payload sendText frames is the reference encoding of the ToRadio
\* message, fields in order and nested lengths exact, and the four bytes of
\* the id field, 7 to 4 bytes before the end, read least significant first
\* are the packet id.
C21_PayloadIsReferenceEncoding ==
  (work.fn = "sendText" /\ work.pc = "written")
    => LET payload == Payload(work.combined)
           end == Len(payload)
       IN  /\ payload = RefToRadio(work.text, work.channelIndex, work.packetId)
           /\ payload[end - 8] = 53
           /\ payload[end - 7] + 256 * payload[end - 6] = work.packetId.lo
           /\ payload[end - 5] + 256 * payload[end - 4] = work.packetId.hi

\* C21 witness: a text with a character of several bytes has been framed on
\* channel 7 with the packet id 0x12345678.
C21_Witness ==
  /\ work.fn = "sendText" /\ work.pc = "written"
  /\ work.packetId = [hi |-> 4660, lo |-> 22136]
  /\ work.channelIndex = 7
  /\ work.text.tail = <<"U+20AC">>

\* The MeshPacket inside a payload: what follows the tag of field 1 and the
\* varint of its length.
RECURSIVE VarintSize(_)
VarintSize(bytes) == IF bytes[1] < 128 THEN 1 ELSE 1 + VarintSize(Tail(bytes))

PacketOf(payload) ==
  LET size == VarintSize(SubSeq(payload, 2, 6))
  IN  SubSeq(payload, 2 + size, Len(payload))

\* C22: for every channel index from 0 to 7, field 3 of the MeshPacket
\* framed follows the two fixed32 fields as a varint, and the varint decodes
\* to the channel index passed to sendText.
C22_ChannelFieldCarriesIndex ==
  (work.fn = "sendText" /\ work.pc = "written")
    => LET packet == PacketOf(Payload(work.combined))
       IN  /\ packet[11] = 24
           /\ VarintDecode(SubSeq(packet, 12, 16)) = U32(work.channelIndex)

\* C22 witness: a frame for channel 0 has been written.
C22_Witness ==
  /\ work.fn = "sendText" /\ work.pc = "written"
  /\ work.channelIndex = 0
  /\ PacketOf(Payload(work.combined))[12] = 0

\* C23: a call of sendToMeshtastic uses one transport and tries once: in
\* serial mode it requests nothing from the network, also after its write has
\* failed; in network mode it writes nothing to the port and takes no writer;
\* in either mode it issues at most one write or request.
C23_OneTransportOneAttempt ==
  work.fn = "sendToMeshtastic"
    => /\ work.mode = "serial" => work.requests = <<>>
       /\ work.mode = "http"
            => work.written = <<>> /\ \A p \in Ports : holders[p] = 0
       /\ Len(work.written) + Len(work.requests) <= 1
       /\ BagCardinality(calls) <= 1
       /\ work.pc = "returned" => calls = EmptyBag

\* C23 witness: a serial send whose write failed has returned.
C23_Witness ==
  /\ work.fn = "sendToMeshtastic" /\ work.pc = "returned"
  /\ work.mode = "serial" /\ work.res = "WriteError"
  /\ Len(work.written) = 1

\* C27: the text a call transmits is the truncated text on either transport:
\* in the frame it writes and in the request it issues.
C27_TruncatedOnEveryPath ==
  work.fn = "sendToMeshtastic"
    => /\ \A i \in 1..Len(work.requests) :
            work.requests[i].text = SafeText(work.text)
       /\ \A i \in 1..Len(work.written) :
            Payload(work.written[i])
              = RefToRadio(SafeText(work.text), work.channelIndex,
                           work.packetId)

\* C28: every frame a serial-mode sendToMeshtastic writes for a channel from
\* 0 to 7 has a payload of at most 222 bytes, a length field whose high byte
\* is 0 and whose low byte is the payload length.
C28_SerialPayloadSmall ==
  (work.fn = "sendToMeshtastic" /\ work.mode = "serial")
    => \A i \in 1..Len(work.written) :
         LET frame == work.written[i]
         IN  /\ Len(frame) - 4 <= 222
             /\ frame[3] = 0
             /\ frame[4] = Len(frame) - 4

\* C28 witness: a frame with a payload of 222 bytes, for a text of 190 bytes
\* on channel 7.
C28_Witness ==
  /\ work.fn = "sendToMeshtastic" /\ work.mode = "serial"
  /\ work.channelIndex = 7
  /\ Len(work.written) = 1
  /\ Len(work.written[1]) - 4 = 222

\* C29: a call whose mode is neither serial nor network fails with a
\* ConfigurationError and does no I/O on either transport.
C29_InvalidModeRejected ==
  (work.fn = "sendToMeshtastic" /\ work.mode \notin {"serial", "http"}
     /\ work.pc # "called")
    => /\ work.res = "ConfigurationError"
       /\ work.written = <<>> /\ work.requests = <<>>

\* C24: Connected is entered only from Disconnected: a connect() or
\* connectToExisting() tells the listeners true only when the manager is not
\* Connected already, and a connect() that ends Connected began Disconnected.
C24_ConnectedOnlyFromDisconnected ==
  [][(ret'.op \in {"connect", "connectToExisting"} /\ ret'.res = "true")
       => /\ ~isConnected
          /\ ret'.op = "connect" => ~ret'.c0]_vars

\* The step starts a call of one of the operations ops, or moves one on.
Advances(ops) ==
  \E c \in BagToSet(calls') :
    c.op \in ops /\ CopiesIn(c, calls') > CopiesIn(c, calls)

TransitionOps == {"connect", "connectToExisting", "disconnect", "unplug"}

\* C25: a step of sendText, sendToMeshtastic or onStatusChange, failed writes
\* included, leaves the connected flag and the held port as they are; the
\* flag and the port change only in steps of connect, connectToExisting,
\* disconnect and the unplug cleanup.
C25_SendsLeaveConnectionState ==
  /\ [][(ret'.op \in SendOps \cup {"onStatusChange"} \/ Advances(SendOps))
          => (isConnected' = isConnected /\ port' = port)]_vars
  /\ [][(isConnected' # isConnected \/ port' # port)
          => (ret'.op \in TransitionOps \/ Advances(TransitionOps))]_vars

\* C25 witness: a send whose write was rejected has returned and the manager
\* is still Connected to the port it wrote to.
C25_Witness ==
  /\ ret.op = "sendText" /\ ret.res = "WriteError"
  /\ isConnected /\ port = ret.lp

\* C26: a send whose write is in flight when the held device is unplugged or
\* the manager is disconnected ends as a failure, with its writer released.
C26_InterruptedWriteFails ==
  [][\A p \in Ports :
       (/\ Writing(p) > 0
        /\ port = NoPort \/ p \notin plugged
        /\ ret'.op = "sendText" /\ ret'.lp = p
        /\ CopiesIn(Call("sendText", "writing", p, FALSE), calls') < Writing(p))
         => /\ ret'.res = "WriteError"
            /\ holders'[p] = holders[p] - 1]_vars

\* C30: the outcome of a cancelled device selection is not the outcome of
\* any genuine failure: connect() ends with "No device selected" only at the
\* picker, before any device was picked, and no other rejection (security,
\* failed or refused open) is given that outcome.
C30_CancellationDistinct ==
  /\ ConnectError("NotFoundError") = "No device selected"
  /\ \A name \in {"SecurityError", "NetworkError", "InvalidStateError"} :
       ConnectError(name) # "No device selected"
  /\ (ret.op = "connect" /\ ret.res = "No device selected")
       => ret.lp = NoPort
  /\ (ret.op = "connect" /\ ret.lp # NoPort)
       => ret.res \in {"true", "Network Error", "InvalidStateError"}

\* C30 witness: a connect() whose picker was cancelled has thrown.
C30_Witness ==
  /\ ret.op = "connect" /\ ret.res = "No device selected"
  /\ ret.lp = NoPort /\ ~isConnected

\* C31: in every reachable state, those where a cleanup interleaves with a
\* connect that is awaiting open() included, the flag is true only while a port
\* is held: getConnectedStatus() never answers true in a state where sendText
\* would reject with "not connected".
C31_ConnectedHoldsPort == isConnected => (port # NoPort /\ ~NotConnected)

\* C32: the step that completes a cleanup (disconnect or unplug) begun on one
\* device leaves alone a connection made since on another device: the held
\* port stays held and the flag stays true.
C32_CleanupSparesNewerConnection ==
  [][\A op \in {"disconnect", "unplug"}, p \in Ports :
       ( /\ Call(op, "closing", p, FALSE) \in Suspended
         /\ ret'.op = op /\ ret'.lp = p
         /\ port \in Ports \ {p}
         /\ portState[port] = "open"
         /\ isConnected )
       => (port' = port /\ isConnected')]_vars

\* C33: a connect that fails while the manager is Connected leaves the manager
\* Connected with the port it held, and no listener is told false.
C33_FailedConnectKeepsConnection ==
  [][( /\ ret'.op = "connect"
       /\ ret'.res # "true"
       /\ ret'.c0
       /\ isConnected )
     => (isConnected' /\ port' = port /\ ret'.told = <<>>)]_vars

\* C34: between callbacks, the value most recently delivered to every
\* subscribed listener is the current connected flag.
C34_ListenersInSync ==
  \A i \in 1..Len(statusListeners) : seen[statusListeners[i]] = <<isConnected>>

\* Two listeners are subscribed and a connect has just told both of them true.
C34_Witness ==
  /\ ret.op = "connect" /\ ret.res = "true"
  /\ Len(ret.told) >= 2
  /\ isConnected

\* C35: a `disconnect` event that names a device other than the held one, or
\* that arrives while no device is held, changes nothing in the manager (flag,
\* port, writer, listeners, suspended calls) and invokes no listener.
C35_ForeignUnplugIgnored ==
  [][\A p \in Ports :
       (p \in plugged /\ p \notin plugged' /\ p # port)
       => ( /\ isConnected' = isConnected
            /\ port' = port
            /\ writer' = writer
            /\ statusListeners' = statusListeners
            /\ calls' = calls
            /\ seen' = seen
            /\ ret'.told = <<>> )]_vars

\* The manager is Connected to a plugged device with a listener subscribed,
\* the other device has been removed, and the removal made no call return.
C35_Witness ==
  /\ isConnected /\ port \in plugged
  /\ portState[port] = "open"
  /\ \E p \in Ports \ {port} : p \notin plugged
  /\ Len(statusListeners) >= 1
  /\ ret = NoRet

====
